---------------------------- MODULE Spec2Model ----------------------------
(***************************************************************************)
(* Model of perun's command interpretation: cliparser.ParseCliArguments,   *)
(* the mode dispatch of main, and the configure wizard of configurator.    *)
(*                                                                         *)
(* One behaviour is one process run: main obtains the context (which       *)
(* parses and validates the command line), walks its sequence of mode      *)
(* comparisons, and in configure mode runs the interactive wizard.         *)
(***************************************************************************)
EXTENDS Integers, Sequences, FiniteSets, TLC

VARIABLES
    pc,          \* position of the process: "start", "checkErr", "if", "findFile",
                 \* "setRegions", "setProfile", "exited"
    args,        \* the command line handed to ParseCliArguments (after args[0])
    cli,         \* the CliArguments descriptor returned by ParseCliArguments
    err,         \* the error returned by ParseCliArguments ("" is nil)
    ifIdx,       \* which of main's twelve mode comparisons is next
    calls,       \* collaborator operations invoked so far, in order
    exitCode,    \* process exit code (NoExit while running)
    exitedIn,    \* the function that terminated the process
    files,       \* paths that exist in the file system
    path,        \* the wizard's target path (yourPath + "/" + yourName)
    statErr,     \* result of os.Stat(path) in findFile
    prompts,     \* wizard prompts issued so far (GetInput calls), in order
    regionReads, \* integers read by setRegions, in order
    profileReads,\* strings read by setProfile, in order
    myRegion,    \* createConfig's myRegion
    myProfile,   \* createConfig's myProfile
    config,      \* the Configuration Record createConfig returned (<<>> if none)
    saved        \* SaveToFile calls: <<record, path>>, in order

vars == <<pc, args, cli, err, ifIdx, calls, exitCode, exitedIn, files, path,
          statErr, prompts, regionReads, profileReads, myRegion, myProfile,
          config, saved>>

wizardVars == <<files, path, statErr, prompts, regionReads, profileReads,
                myRegion, myProfile, config, saved>>

parseVars == <<args, cli, err>>

---------------------------------------------------------------------------
(* Bounds of the model. *)

\* Integers tried for --duration lie within DurSlack of 0 and of MaxDuration.
DurSlack == 2
\* Positional arguments supplied on the command line: 0..MaxPositional.
MaxPositional == 3
\* Reads allowed in each of the wizard's two retry loops.
MaxReads == 3
\* Region indices typed by the operator: -IdxSlack .. NumRegions - 1 + IdxSlack.
IdxSlack == 2

---------------------------------------------------------------------------
(* Pointers: the descriptor's fields are Go pointers, nil until assigned. *)

Nil == <<>>
Ptr(v) == <<v>>
IsNil(p) == Len(p) = 0
Deref(p) == p[1]

NoExit == 0 - 1
NoErr == ""

---------------------------------------------------------------------------
(* cliparser: the mode names. *)

ValidateMode == "validate"
ConvertMode == "convert"
OfflineValidateMode == "validate_offline"
ConfigureMode == "configure"
CreateStackMode == "create-stack"
DestroyStackMode == "delete-stack"
UpdateStackMode == "update-stack"
MfaMode == "mfa"
SetupSinkMode == "setup-remote-sink"
DestroySinkMode == "destroy-remote-sink"
CreateParametersMode == "create-parameters"
SetStackPolicyMode == "set-stack-policy"

Modes == {ValidateMode, ConvertMode, OfflineValidateMode, ConfigureMode,
          CreateStackMode, DestroyStackMode, UpdateStackMode, MfaMode,
          SetupSinkMode, DestroySinkMode, CreateParametersMode,
          SetStackPolicyMode}

\* Upper end of the accepted --duration range.
MaxDuration == 129600

ErrDurationLow == "You should specify value for duration of MFA token greater than zero"
ErrDurationHigh == "You should specify value for duration of MFA token smaller than 129600 (3 hours)"
ErrVerbosity == "You specified invalid value for --verbosity flag"

\* The struct's zero value: every pointer nil.
CliArguments ==
    [Mode |-> Nil, TemplatePath |-> Nil, Parameters |-> Nil,
     OutputFilePath |-> Nil, ConfigurationPath |-> Nil, Quiet |-> Nil,
     Yes |-> Nil, Verbosity |-> Nil, MFA |-> Nil, DurationForMFA |-> Nil,
     Profile |-> Nil, Region |-> Nil, Sandbox |-> Nil, Stack |-> Nil,
     Capabilities |-> Nil, PrettyPrint |-> Nil, Progress |-> Nil,
     ParametersFile |-> Nil, Block |-> Nil, Unblock |-> Nil,
     DisableStackTermination |-> Nil, EnableStackTermination |-> Nil]

---------------------------------------------------------------------------
(* The command line.  A command line is a mode token ("" when none is      *)
(* given), the positional arguments after it, --duration (absent, not an   *)
(* integer, or an integer), --verbosity ("" when absent) and the two       *)
(* termination flags of set-stack-policy.  Every other flag is left out of *)
(* the command line and so takes its default.                              *)

PositionalTokens == <<"arg1", "arg2", "arg3", "arg4">>

DurationValues ==
    ((0 - DurSlack) .. DurSlack) \cup ((MaxDuration - DurSlack) .. (MaxDuration + DurSlack))

VerbosityTokens == {"", "INFO", "TRACE", "debug"}

ModeTokens == Modes \cup {"", "bogus"}

CommandLines ==
    { a \in [mode : ModeTokens,
             pos : {SubSeq(PositionalTokens, 1, n) : n \in 0 .. MaxPositional},
             durKind : {"absent", "malformed", "int"},
             durVal : DurationValues,
             verbosity : VerbosityTokens,
             disable : BOOLEAN,
             enable : BOOLEAN] :
        /\ (a.mode = "" => a.pos = <<>>)
        /\ (a.durKind # "int" => a.durVal = 0) }

ArgAt(pos, i) == IF i <= Len(pos) THEN pos[i] ELSE ""

---------------------------------------------------------------------------
(* The grammar declared with kingpin (cliparser.go 86-132).                *)

\* Positional arguments a command declares.
MaxArgs(mode) ==
    CASE mode \in {ValidateMode, OfflineValidateMode, DestroyStackMode} -> 1
      [] mode \in {ConvertMode, CreateStackMode, UpdateStackMode,
                   CreateParametersMode, SetStackPolicyMode} -> 2
      [] OTHER -> 0

\* Positional arguments declared Required().
RequiredArgs(mode) == IF mode = CreateStackMode THEN 2 ELSE 0

\* app.Parse(args[1:]): "ok" with the selected command, "error" when Parse
\* returns an error, "usage" when no command was selected.  Parse looks at
\* the command line in this order: an unknown command or an unknown flag
\* (a flag of another command), a left-over positional argument, a flag
\* value that does not convert (--duration abc), a missing required
\* argument, and last ErrCommandNotSpecified, on which Parse itself writes
\* the usage and terminates the process with status 0.
KingpinParse(a) ==
    IF a.mode # "" /\ a.mode \notin Modes THEN "error"
    ELSE IF (a.disable \/ a.enable) /\ a.mode # SetStackPolicyMode THEN "error"
    ELSE IF Len(a.pos) > MaxArgs(a.mode) THEN "error"
    ELSE IF a.durKind = "malformed" THEN "error"
    ELSE IF Len(a.pos) < RequiredArgs(a.mode) THEN "error"
    ELSE IF a.mode = "" THEN "usage"
    ELSE "ok"

\* The value bound to --duration: Int64() is 0 unless the flag is given.
DurationFlag(a) == IF a.durKind = "int" THEN a.durVal ELSE 0

---------------------------------------------------------------------------
(* ParseCliArguments.                                                      *)

\* The switch over the selected command: the mode and its own fields.
ModeSwitch(a) ==
    LET c == CliArguments
        m == a.mode
    IN  CASE m = ValidateMode ->
               [c EXCEPT !.Mode = Ptr(ValidateMode),
                         !.TemplatePath = Ptr(ArgAt(a.pos, 1))]
          [] m = OfflineValidateMode ->
               [c EXCEPT !.Mode = Ptr(OfflineValidateMode),
                         !.TemplatePath = Ptr(ArgAt(a.pos, 1))]
          [] m = ConvertMode ->
               [c EXCEPT !.Mode = Ptr(ConvertMode),
                         !.TemplatePath = Ptr(ArgAt(a.pos, 1)),
                         !.OutputFilePath = Ptr(ArgAt(a.pos, 2)),
                         !.PrettyPrint = Ptr(FALSE)]
          [] m = ConfigureMode ->
               [c EXCEPT !.Mode = Ptr(ConfigureMode)]
          [] m = CreateStackMode ->
               [c EXCEPT !.Mode = Ptr(CreateStackMode),
                         !.Stack = Ptr(ArgAt(a.pos, 1)),
                         !.TemplatePath = Ptr(ArgAt(a.pos, 2)),
                         !.Capabilities = Ptr(<<>>),
                         !.Parameters = Ptr(<<>>),
                         !.ParametersFile = Ptr("")]
          [] m = DestroyStackMode ->
               [c EXCEPT !.Mode = Ptr(DestroyStackMode),
                         !.Stack = Ptr(ArgAt(a.pos, 1))]
          [] m = MfaMode ->
               [c EXCEPT !.Mode = Ptr(MfaMode)]
          [] m = UpdateStackMode ->
               [c EXCEPT !.Mode = Ptr(UpdateStackMode),
                         !.Stack = Ptr(ArgAt(a.pos, 1)),
                         !.TemplatePath = Ptr(ArgAt(a.pos, 2)),
                         !.Capabilities = Ptr(<<>>)]
          [] m = CreateParametersMode ->
               [c EXCEPT !.Mode = Ptr(CreateParametersMode),
                         !.TemplatePath = Ptr(ArgAt(a.pos, 1)),
                         !.OutputFilePath = Ptr(ArgAt(a.pos, 2)),
                         !.Parameters = Ptr(<<>>),
                         !.PrettyPrint = Ptr(FALSE)]
          [] m = SetStackPolicyMode ->
               [c EXCEPT !.Mode = Ptr(SetStackPolicyMode),
                         !.Block = Ptr(FALSE),
                         !.Unblock = Ptr(FALSE),
                         !.Stack = Ptr(ArgAt(a.pos, 1)),
                         !.TemplatePath = Ptr(ArgAt(a.pos, 2)),
                         !.DisableStackTermination = Ptr(a.disable),
                         !.EnableStackTermination = Ptr(a.enable)]
          [] m = SetupSinkMode ->
               [c EXCEPT !.Mode = Ptr(SetupSinkMode)]
          [] m = DestroySinkMode ->
               [c EXCEPT !.Mode = Ptr(DestroySinkMode)]
          [] OTHER -> c

\* OtherFlags with --pretty-print copied among the shared flags.
OtherFlags_sharedPrettyPrint(c, a) ==
    [c EXCEPT !.Quiet = Ptr(FALSE),
              !.Yes = Ptr(FALSE),
              !.Verbosity = Ptr(a.verbosity),
              !.MFA = Ptr(FALSE),
              !.DurationForMFA = Ptr(DurationFlag(a)),
              !.Profile = Ptr(""),
              !.Region = Ptr(""),
              !.Sandbox = Ptr(FALSE),
              !.ConfigurationPath = Ptr(""),
              !.Progress = Ptr(FALSE),
              !.PrettyPrint = Ptr(FALSE)]

\* "OTHER FLAGS": the flags shared by every mode.
OtherFlags(c, a) ==
    [c EXCEPT !.Quiet = Ptr(FALSE),
              !.Yes = Ptr(FALSE),
              !.Verbosity = Ptr(a.verbosity),
              !.MFA = Ptr(FALSE),
              !.DurationForMFA = Ptr(DurationFlag(a)),
              !.Profile = Ptr(""),
              !.Region = Ptr(""),
              !.Sandbox = Ptr(FALSE),
              !.ConfigurationPath = Ptr(""),
              !.Progress = Ptr(FALSE)]

\* DurationTooLow refusing 0 as well.
DurationTooLow_refusesZero(d) == d < 1

\* The lower check on the duration.
DurationTooLow(d) == d < 0

\* The upper check on the duration.
DurationTooHigh(d) == d > MaxDuration

\* logger.IsVerbosityValid.
IsVerbosityValid(v) == v \in {"TRACE", "DEBUG", "INFO", "ERROR"}

\* The checks after the flags are copied: the error returned ("" is nil).
Validate(c) ==
    IF DurationTooLow(Deref(c.DurationForMFA)) THEN ErrDurationLow
    ELSE IF DurationTooHigh(Deref(c.DurationForMFA)) THEN ErrDurationHigh
    ELSE IF Deref(c.Verbosity) # "" /\ ~IsVerbosityValid(Deref(c.Verbosity))
         THEN ErrVerbosity
    ELSE NoErr

\* What kingpin.MustParse does with Parse's result: on an error it prints it
\* and terminates the process with status 1; otherwise it returns the command.
MustParse(k) ==
    CASE k = "error" -> [terminated |-> TRUE, exit |-> 1]
      [] k = "usage" -> [terminated |-> TRUE, exit |-> 0]
      [] OTHER -> [terminated |-> FALSE, exit |-> NoExit]

\* ParseCliArguments(args): either the process is terminated inside the call,
\* or the call returns (cliArguments, err).
ParseCliArguments(a) ==
    LET m == MustParse(KingpinParse(a))
        c == OtherFlags(ModeSwitch(a), a)
    IN  IF m.terminated
        THEN [terminated |-> TRUE, exit |-> m.exit, cli |-> CliArguments, err |-> NoErr]
        ELSE [terminated |-> FALSE, exit |-> NoExit, cli |-> c, err |-> Validate(c)]

---------------------------------------------------------------------------
(* main: the mode dispatch.                                                *)

\* The mode compared by the i-th "if" of main, in source order.
ModeAt(i) ==
    <<ValidateMode, ConvertMode, OfflineValidateMode, ConfigureMode,
      CreateStackMode, DestroyStackMode, MfaMode, UpdateStackMode,
      SetupSinkMode, DestroySinkMode, CreateParametersMode,
      SetStackPolicyMode>>[i]

NumIfs == 12

\* PolicyOperation with "and" in place of "or".
PolicyOperation_bothFlags(disable, enable) ==
    IF disable /\ enable THEN "stack.SetTerminationProtection"
    ELSE "stack.ApplyStackPolicy"

\* The branch inside the set-stack-policy comparison.
PolicyOperation(disable, enable) ==
    IF disable \/ enable THEN "stack.SetTerminationProtection"
    ELSE "stack.ApplyStackPolicy"

\* The collaborator operation the i-th "if" invokes for descriptor c.
Operation(i, c) ==
    CASE i = 1 -> "onlinevalidator.ValidateAndEstimateCosts"
      [] i = 2 -> "converter.Convert"
      [] i = 3 -> "offlinevalidator.Validate"
      [] i = 4 -> "configurator.FileName"
      [] i = 5 -> "stack.NewStack"
      [] i = 6 -> "stack.DestroyStack"
      [] i = 7 -> "mysession.UpdateSessionToken"
      [] i = 8 -> "stack.UpdateStack"
      [] i = 9 -> "progress.ConfigureRemoteSink"
      [] i = 10 -> "progress.DestroyRemoteSink"
      [] i = 11 -> "parameters.ConfigureParameters"
      [] i = 12 -> PolicyOperation(Deref(c.DisableStackTermination),
                                   Deref(c.EnableStackTermination))

\* Comparisons whose body hands the result to utilities.CheckFlagAndExit or
\* utilities.CheckErrorCodeAndExit and has no os.Exit of its own.
HelperIfs == {1, 2, 3, 5, 6, 8, 12}

\* Comparisons whose body calls the collaborator and then os.Exit(0).
ExitZeroIfs == {9, 10, 11}

\* utilities.CheckFlagAndExit / CheckErrorCodeAndExit: the exit code is the
\* collaborator's; a helper that returns lets main go on to the next "if".
HelperOutcomes == {"exit0", "exit1", "return"}

\* ModeMatches with the update-stack comparison written against
\* CreateStackMode (a copied "if" whose constant was not changed).
ModeMatches_copiedConstant(i, c) ==
    Deref(c.Mode) = ModeAt(IF i = 8 THEN 5 ELSE i)

\* Does the i-th comparison of main match the descriptor's mode?
ModeMatches(i, c) == Deref(c.Mode) = ModeAt(i)

---------------------------------------------------------------------------
(* configurator: the wizard.                                               *)

resourceSpecificationURL ==
    [r \in {"us-east-2", "us-east-1", "us-west-1", "us-west-2", "ap-south-1",
            "ap-northeast-2", "ap-southeast-1", "ap-southeast-2",
            "ap-northeast-1", "ca-central-1", "eu-central-1", "eu-west-1",
            "eu-west-2", "sa-east-1"} |->
        CASE r = "us-east-2" -> "https://dnwj8swjjbsbt.cloudfront.net"
          [] r = "us-east-1" -> "https://d1uauaxba7bl26.cloudfront.net"
          [] r = "us-west-1" -> "https://d68hl49wbnanq.cloudfront.net"
          [] r = "us-west-2" -> "https://d201a2mn26r7lk.cloudfront.net"
          [] r = "ap-south-1" -> "https://d2senuesg1djtx.cloudfront.net"
          [] r = "ap-northeast-2" -> "https://d1ane3fvebulky.cloudfront.net"
          [] r = "ap-southeast-1" -> "https://doigdx0kgq9el.cloudfront.net"
          [] r = "ap-southeast-2" -> "https://d2stg8d246z9di.cloudfront.net"
          [] r = "ap-northeast-1" -> "https://d33vqc0rt9ld30.cloudfront.net"
          [] r = "ca-central-1" -> "https://d2s8ygphhesbe7.cloudfront.net"
          [] r = "eu-central-1" -> "https://d1mta8qj7i28i2.cloudfront.net"
          [] r = "eu-west-1" -> "https://d3teyb21fexa9r.cloudfront.net"
          [] r = "eu-west-2" -> "https://d1742qcu2c1ncx.cloudfront.net"
          [] r = "sa-east-1" -> "https://d3c9jyj3w509b0.cloudfront.net"]

\* The catalog; Go indexes it from 0, so regions[n] is makeArrayRegions[n + 1].
makeArrayRegions ==
    <<"us-east-1", "us-east-2", "us-west-1", "us-west-2", "ca-central-1",
      "ca-central-1", "eu-west-1", "eu-west-2", "ap-northeast-1",
      "ap-northeast-2", "ap-southeast-1", "ap-southeast-2", "ap-south-1",
      "sa-east-1">>

\* The literal upper limit setRegions compares the index with.
NumRegions == 14

\* RegionAccepted with a strict lower comparison.
RegionAccepted_strictLower(n) == n > 0 /\ n < NumRegions

\* setRegions: is the index read accepted?
RegionAccepted(n) == n >= 0 /\ n < NumRegions

\* setRegions: the region returned ("" when the index is refused).
setRegions(n) == IF RegionAccepted(n) THEN makeArrayRegions[n + 1] ELSE ""

\* ProfileAccepted without the emptiness test.
ProfileAccepted_unchecked(p) == TRUE

\* setProfile: is the string read accepted?
ProfileAccepted(p) == p # ""

\* createConfig: the record built once both loops are over.
createConfig(region, profile) ==
    [DefaultProfile |-> profile,
     DefaultRegion |-> region,
     SpecificationURL |-> resourceSpecificationURL,
     DefaultDecisionForMFA |-> FALSE,
     DefaultDurationForMFA |-> 3600,
     DefaultVerbosity |-> "INFO"]

\* What the operator may type.
RegionInputs == (0 - IdxSlack) .. (NumRegions - 1 + IdxSlack)
ProfileInputs == {"", "default", "dev"}
Paths == {"/etc/perun/main.yaml", "~/.config/perun/main.yaml"}

\* The paths that exist when the process starts.
InitialFiles == {"/etc/perun/main.yaml"}

\* os.Stat(path): nil when the path exists, ENOENT when it does not, and
\* in either case possibly another error (EACCES on a parent directory).
StatResults(p, fs) == (IF p \in fs THEN {"nil"} ELSE {"ENOENT"}) \cup {"EACCES"}

\* os.IsNotExist(err)
IsNotExist(e) == e = "ENOENT"

\* findFileCreates with the two branches exchanged.
findFileCreates_inverted(e) == ~(e = "ENOENT")

\* findFile: does it go on to create the configuration?
findFileCreates(e) == IsNotExist(e)

---------------------------------------------------------------------------
(* The process.                                                            *)

Init ==
    /\ pc = "start"
    /\ args \in CommandLines
    /\ cli = CliArguments
    /\ err = NoErr
    /\ ifIdx = 0
    /\ calls = <<>>
    /\ exitCode = NoExit
    /\ exitedIn = ""
    /\ files = InitialFiles
    /\ path = ""
    /\ statErr = ""
    /\ prompts = <<>>
    /\ regionReads = <<>>
    /\ profileReads = <<>>
    /\ myRegion = ""
    /\ myProfile = ""
    /\ config = Nil
    /\ saved = <<>>

\* os.Exit(code) called from function fn.
Exit(code, fn) ==
    /\ pc' = "exited"
    /\ exitCode' = code
    /\ exitedIn' = fn

\* main, line 38: context.GetContext calls ParseCliArguments(os.Args) and
\* hands its error back.
Main_GetContext ==
    /\ pc = "start"
    /\ LET r == ParseCliArguments(args)
       IN  /\ cli' = r.cli
           /\ err' = r.err
           /\ IF r.terminated
              THEN Exit(r.exit, "ParseCliArguments")
              ELSE /\ pc' = "checkErr"
                   /\ UNCHANGED <<exitCode, exitedIn>>
    /\ UNCHANGED <<args, ifIdx, calls>>
    /\ UNCHANGED wizardVars

\* main, lines 39-41.
Main_CheckErr ==
    /\ pc = "checkErr"
    /\ IF err # NoErr
       THEN /\ Exit(1, "main")
            /\ UNCHANGED ifIdx
       ELSE /\ pc' = "if"
            /\ ifIdx' = 1
            /\ UNCHANGED <<exitCode, exitedIn>>
    /\ UNCHANGED <<calls>>
    /\ UNCHANGED parseVars
    /\ UNCHANGED wizardVars

\* A comparison that does not match: control falls to the next one.
Main_IfSkip ==
    /\ pc = "if"
    /\ ifIdx <= NumIfs
    /\ ~ModeMatches(ifIdx, cli)
    /\ ifIdx' = ifIdx + 1
    /\ UNCHANGED <<pc, calls, exitCode, exitedIn>>
    /\ UNCHANGED parseVars
    /\ UNCHANGED wizardVars

\* A matching comparison whose body is CheckFlagAndExit(op(&context)) or
\* CheckErrorCodeAndExit(op(&context)).
Main_IfHelper ==
    /\ pc = "if"
    /\ ifIdx \in HelperIfs
    /\ ModeMatches(ifIdx, cli)
    /\ calls' = Append(calls, Operation(ifIdx, cli))
    /\ \E o \in HelperOutcomes :
         CASE o = "exit0" -> Exit(0, "utilities") /\ UNCHANGED ifIdx
           [] o = "exit1" -> Exit(1, "utilities") /\ UNCHANGED ifIdx
           [] o = "return" -> /\ ifIdx' = ifIdx + 1
                              /\ UNCHANGED <<pc, exitCode, exitedIn>>
    /\ UNCHANGED parseVars
    /\ UNCHANGED wizardVars

\* main, lines 58-59: configure mode enters the wizard.
Main_IfConfigure ==
    /\ pc = "if"
    /\ ifIdx = 4
    /\ ModeMatches(ifIdx, cli)
    /\ calls' = Append(calls, Operation(ifIdx, cli))
    /\ pc' = "FileName"
    /\ UNCHANGED <<ifIdx, exitCode, exitedIn>>
    /\ UNCHANGED parseVars
    /\ UNCHANGED wizardVars

\* main, lines 73-81: mfa mode exits with 0 or 1 by UpdateSessionToken's error.
Main_IfMfa ==
    /\ pc = "if"
    /\ ifIdx = 7
    /\ ModeMatches(ifIdx, cli)
    /\ calls' = Append(calls, Operation(ifIdx, cli))
    /\ \E code \in {0, 1} : Exit(code, "main")
    /\ UNCHANGED ifIdx
    /\ UNCHANGED parseVars
    /\ UNCHANGED wizardVars

\* main, lines 87-100: the collaborator, then os.Exit(0).
Main_IfExitZero ==
    /\ pc = "if"
    /\ ifIdx \in ExitZeroIfs
    /\ ModeMatches(ifIdx, cli)
    /\ calls' = Append(calls, Operation(ifIdx, cli))
    /\ Exit(0, "main")
    /\ UNCHANGED ifIdx
    /\ UNCHANGED parseVars
    /\ UNCHANGED wizardVars

\* main returns after its last comparison.
Main_Return ==
    /\ pc = "if"
    /\ ifIdx > NumIfs
    /\ Exit(0, "main")
    /\ UNCHANGED <<ifIdx, calls>>
    /\ UNCHANGED parseVars
    /\ UNCHANGED wizardVars

\* FileName reads the directory and the file name and calls findFile, which
\* stats the path; when the path is not reported missing, findFile and
\* FileName return and main exits with 0.
FileName ==
    /\ pc = "FileName"
    /\ prompts' = prompts \o <<"Your path ", "Filename ">>
    /\ \E p \in Paths :
         /\ path' = p
         /\ \E e \in StatResults(p, files) :
              /\ statErr' = e
              /\ IF findFileCreates(e)
                 THEN /\ pc' = "setRegions"
                      /\ UNCHANGED <<exitCode, exitedIn>>
                 ELSE Exit(0, "main")
    /\ UNCHANGED <<ifIdx, calls, files, regionReads, profileReads, myRegion,
                   myProfile, config, saved>>
    /\ UNCHANGED parseVars

\* createConfig, lines 91-95: one call of setRegions, first or repeated.
SetRegions ==
    /\ pc = "setRegions"
    /\ Len(regionReads) < MaxReads
    /\ prompts' = Append(prompts, "Choose region")
    /\ \E n \in RegionInputs :
         /\ regionReads' = Append(regionReads, n)
         /\ myRegion' = setRegions(n)
         /\ pc' = IF RegionAccepted(n) THEN "setProfile" ELSE "setRegions"
    /\ UNCHANGED <<ifIdx, calls, exitCode, exitedIn, files, path, statErr,
                   profileReads, myProfile, config, saved>>
    /\ UNCHANGED parseVars

\* createConfig, lines 96-111: one call of setProfile, first or repeated; once
\* a profile is accepted createConfig returns the record, findFile passes it
\* to configuration.SaveToFile, and main exits with 0.
SetProfile ==
    /\ pc = "setProfile"
    /\ Len(profileReads) < MaxReads
    /\ prompts' = Append(prompts, "Input name of profile")
    /\ \E p \in ProfileInputs :
         /\ profileReads' = Append(profileReads, p)
         /\ IF ProfileAccepted(p)
            THEN /\ myProfile' = p
                 /\ config' = Ptr(createConfig(myRegion, p))
                 /\ saved' = Append(saved, <<createConfig(myRegion, p), path>>)
                 /\ files' = files \cup {path}
                 /\ Exit(0, "main")
            ELSE /\ myProfile' = ""
                 /\ UNCHANGED <<config, saved, files, pc, exitCode, exitedIn>>
    /\ UNCHANGED <<ifIdx, calls, path, statErr, regionReads, myRegion>>
    /\ UNCHANGED parseVars

Next ==
    \/ Main_GetContext
    \/ Main_CheckErr
    \/ Main_IfSkip
    \/ Main_IfHelper
    \/ Main_IfConfigure
    \/ Main_IfMfa
    \/ Main_IfExitZero
    \/ Main_Return
    \/ FileName
    \/ SetRegions
    \/ SetProfile

Spec == Init /\ [][Next]_vars

---------------------------------------------------------------------------
(* Vocabulary of the properties.                                           *)

\* ParseCliArguments has been called.
Parsed == pc # "start"

\* ParseCliArguments returned to its caller.
Returned == Parsed /\ exitedIn # "ParseCliArguments"

\* The positional arguments of each mode's grammar: how many it takes and
\* how many of them are required.
GrammarPositionals(mode) ==
    CASE mode \in {"validate", "validate_offline", "delete-stack"} -> 1
      [] mode \in {"convert", "create-stack", "update-stack",
                   "create-parameters", "set-stack-policy"} -> 2
      [] mode \in {"configure", "mfa", "setup-remote-sink",
                   "destroy-remote-sink"} -> 0

GrammarRequired(mode) == IF mode = "create-stack" THEN 2 ELSE 0

\* The mode-specific fields of the descriptor, and those of each mode's grammar.
ModeSpecificFields ==
    {"TemplatePath", "OutputFilePath", "Stack", "Capabilities", "Parameters",
     "ParametersFile", "PrettyPrint", "Block", "Unblock",
     "DisableStackTermination", "EnableStackTermination"}

GrammarFields(mode) ==
    CASE mode \in {"validate", "validate_offline"} -> {"TemplatePath"}
      [] mode = "convert" -> {"TemplatePath", "OutputFilePath", "PrettyPrint"}
      [] mode = "create-stack" ->
           {"Stack", "TemplatePath", "Capabilities", "Parameters", "ParametersFile"}
      [] mode = "delete-stack" -> {"Stack"}
      [] mode = "update-stack" -> {"Stack", "TemplatePath", "Capabilities"}
      [] mode = "create-parameters" ->
           {"TemplatePath", "OutputFilePath", "Parameters", "PrettyPrint"}
      [] mode = "set-stack-policy" ->
           {"Stack", "TemplatePath", "Block", "Unblock",
            "DisableStackTermination", "EnableStackTermination"}
      [] mode \in {"configure", "mfa", "setup-remote-sink",
                   "destroy-remote-sink"} -> {}

\* No flag at all on the command line.
NoFlags ==
    /\ args.durKind = "absent"
    /\ args.verbosity = ""
    /\ ~args.disable
    /\ ~args.enable

\* A valid mode followed by exactly the positional arguments it requires.
MinimalArguments ==
    /\ args.mode \in Modes
    /\ Len(args.pos) = GrammarRequired(args.mode)
    /\ NoFlags

\* A valid mode followed by its required positional arguments (and no more
\* than its grammar takes), with no flag.
RequiredArgumentsNoFlags ==
    /\ args.mode \in Modes
    /\ Len(args.pos) >= GrammarRequired(args.mode)
    /\ Len(args.pos) <= GrammarPositionals(args.mode)
    /\ NoFlags

\* Everything but --duration is valid, and --duration is an integer.
ValidButDuration ==
    /\ args.mode \in Modes
    /\ Len(args.pos) >= GrammarRequired(args.mode)
    /\ Len(args.pos) <= GrammarPositionals(args.mode)
    /\ (args.disable \/ args.enable) => args.mode = "set-stack-policy"
    /\ args.verbosity \in {"", "TRACE", "DEBUG", "INFO", "ERROR"}
    /\ args.durKind = "int"

\* Parsing or validation of the command line failed.
ParseFailed == Parsed /\ (exitedIn = "ParseCliArguments" \/ err # NoErr)

\* main reached its mode comparisons.
Dispatching == ifIdx >= 1

\* The operation each mode is to be routed to.
MappedOperations(mode) ==
    CASE mode = "validate" -> {"onlinevalidator.ValidateAndEstimateCosts"}
      [] mode = "convert" -> {"converter.Convert"}
      [] mode = "validate_offline" -> {"offlinevalidator.Validate"}
      [] mode = "configure" -> {"configurator.FileName"}
      [] mode = "create-stack" -> {"stack.NewStack"}
      [] mode = "delete-stack" -> {"stack.DestroyStack"}
      [] mode = "mfa" -> {"mysession.UpdateSessionToken"}
      [] mode = "update-stack" -> {"stack.UpdateStack"}
      [] mode = "setup-remote-sink" -> {"progress.ConfigureRemoteSink"}
      [] mode = "destroy-remote-sink" -> {"progress.DestroyRemoteSink"}
      [] mode = "create-parameters" -> {"parameters.ConfigureParameters"}
      [] mode = "set-stack-policy" ->
           {"stack.ApplyStackPolicy", "stack.SetTerminationProtection"}

\* An index of the catalog.
InCatalog(n) == 0 <= n /\ n < Len(makeArrayRegions)

Last(seq) == seq[Len(seq)]

RegionPrompts == Len(SelectSeq(prompts, LAMBDA q : q = "Choose region"))
ProfilePrompts == Len(SelectSeq(prompts, LAMBDA q : q = "Input name of profile"))

---------------------------------------------------------------------------
(* The properties, C1 to C10.                                              *)

\* C1: with every other argument valid, ParseCliArguments accepts an integer
\* duration d if and only if 1 <= d <= 129600.
C1_DurationAcceptedIffInRange ==
    (Parsed /\ ValidButDuration) =>
        /\ Returned
        /\ (err = NoErr) <=> (1 <= args.durVal /\ args.durVal <= 129600)

\* C2: a run of main invokes at most one collaborator operation, the one
\* mapped to the descriptor's mode, and a run that got as far as the mode
\* comparisons has invoked exactly one when the process ends, whether the
\* process was ended by the operation's exit helper or main ran on through
\* the comparisons that follow it.
C2_ExactlyOneMappedOperation ==
    /\ Len(calls) <= 1
    /\ Len(calls) = 1 =>
         /\ Dispatching
         /\ calls[1] \in MappedOperations(Deref(cli.Mode))
    /\ (Dispatching /\ pc \in {"exited", "FileName", "setRegions", "setProfile"})
         => Len(calls) = 1
    /\ (pc = "if" /\ Len(calls) = 0) =>
         \E i \in ifIdx .. NumIfs : ModeAt(i) = Deref(cli.Mode)

\* C2 witness: validate mode, the exit helper returned, main went through all
\* eleven later comparisons and returned, and the call count is still one.
C2_Witness ==
    /\ pc = "exited"
    /\ ifIdx > NumIfs
    /\ Deref(cli.Mode) = "validate"
    /\ calls = <<"onlinevalidator.ValidateAndEstimateCosts">>

\* C3: parsing a valid mode token with the minimum required arguments
\* returns no error and a descriptor whose Mode is that token, and a returned
\* descriptor leaves every mode-specific field outside its mode's grammar nil.
C3_ModeSetWithoutLeakage ==
    /\ (Parsed /\ MinimalArguments) =>
         /\ Returned
         /\ err = NoErr
         /\ ~IsNil(cli.Mode)
         /\ Deref(cli.Mode) = args.mode
    /\ (Returned /\ args.mode \in Modes) =>
         \A f \in ModeSpecificFields :
            IsNil(cli[f]) <=> f \notin GrammarFields(args.mode)

\* C3 witness: create-stack with its two required arguments and nothing else.
C3_Witness ==
    /\ Returned
    /\ MinimalArguments
    /\ args.mode = "create-stack"
    /\ Deref(cli.Stack) = "arg1"
    /\ Deref(cli.TemplatePath) = "arg2"
    /\ IsNil(cli.OutputFilePath)

\* C4: ParseCliArguments never terminates the process itself: every parse
\* or validation error comes back to its caller as an error value.
C4_ErrorsAreReturned ==
    Parsed => exitedIn # "ParseCliArguments"

\* C5: when parsing or validation fails, no collaborator operation is
\* invoked, main does not reach its mode comparisons, and the process ends
\* with a non-zero exit code.
C5_FailureExitsNonZeroBeforeDispatch ==
    ParseFailed =>
        /\ calls = <<>>
        /\ ~Dispatching
        /\ pc \in {"checkErr", "exited"}
        /\ pc = "exited" => exitCode # 0

\* C6: a valid mode with its required positional arguments and no flag does
\* not fail: ParseCliArguments returns the descriptor with no error and every
\* shared flag at its default.
C6_DefaultsDoNotFail ==
    (Parsed /\ RequiredArgumentsNoFlags) =>
        /\ Returned
        /\ err = NoErr
        /\ Deref(cli.DurationForMFA) = 0
        /\ Deref(cli.Verbosity) = ""
        /\ \A f \in {"Profile", "Region", "ConfigurationPath"} : Deref(cli[f]) = ""
        /\ \A f \in {"Quiet", "Yes", "MFA", "Sandbox", "Progress"} : Deref(cli[f]) = FALSE

\* C6 witness: "validate" alone, past main's error check.
C6_Witness ==
    /\ RequiredArgumentsNoFlags
    /\ args.mode = "validate"
    /\ args.pos = <<>>
    /\ pc = "if"
    /\ Deref(cli.DurationForMFA) = 0

\* C7: while the region loop runs every index read so far was outside the
\* catalog and the profile prompt has not been issued; once the loop is left
\* the last index read is the first one inside the catalog, the selected
\* region is the catalog entry at that index, and the region prompt was
\* issued once per index read.
C7_RegionLoop ==
    /\ pc = "setRegions" =>
         /\ \A i \in 1 .. Len(regionReads) : ~InCatalog(regionReads[i])
         /\ ProfilePrompts = 0
         /\ profileReads = <<>>
    /\ (ProfilePrompts > 0 \/ pc = "setProfile") =>
         /\ Len(regionReads) > 0
         /\ InCatalog(Last(regionReads))
         /\ \A i \in 1 .. Len(regionReads) - 1 : ~InCatalog(regionReads[i])
         /\ myRegion = makeArrayRegions[Last(regionReads) + 1]
    /\ RegionPrompts = Len(regionReads)

\* C7 witness: two indices outside the catalog (one on each side), then 0.
C7_Witness ==
    /\ pc = "setProfile"
    /\ regionReads = <<0 - 1, NumRegions, 0>>
    /\ myRegion = "us-east-1"
    /\ RegionPrompts = 3

\* C8: when the target path exists the wizard prompts for neither region nor
\* profile, builds no record and never calls SaveToFile; SaveToFile is called
\* only after os.Stat reported the path missing.
C8_ExistingFileAborts ==
    /\ (statErr # "" /\ path \in InitialFiles) =>
         /\ RegionPrompts = 0
         /\ ProfilePrompts = 0
         /\ regionReads = <<>>
         /\ profileReads = <<>>
         /\ IsNil(config)
         /\ saved = <<>>
         /\ pc = "exited"
    /\ saved # <<>> =>
         /\ statErr = "ENOENT"
         /\ Len(saved) = 1
         /\ saved[1][2] = path
         /\ path \notin InitialFiles

\* C8 witness: the path exists, os.Stat succeeded, the process has ended.
C8_Witness ==
    /\ statErr = "nil"
    /\ path = "/etc/perun/main.yaml"
    /\ pc = "exited"
    /\ exitCode = 0
    /\ calls = <<"configurator.FileName">>

\* C9: the record createConfig returns has the last profile read (non-empty),
\* the catalog entry at the last index read, MFA duration 3600, MFA decision
\* false, verbosity INFO and the whole static URL mapping; the region chosen
\* by the first loop stays as it is through the profile retries.
C9_ConfigurationRecord ==
    /\ ~IsNil(config) =>
         /\ Len(profileReads) > 0
         /\ Last(profileReads) # ""
         /\ Deref(config).DefaultProfile = Last(profileReads)
         /\ InCatalog(Last(regionReads))
         /\ Deref(config).DefaultRegion = makeArrayRegions[Last(regionReads) + 1]
         /\ Deref(config).DefaultDurationForMFA = 3600
         /\ Deref(config).DefaultDecisionForMFA = FALSE
         /\ Deref(config).DefaultVerbosity = "INFO"
         /\ Deref(config).SpecificationURL = resourceSpecificationURL
         /\ DOMAIN Deref(config).SpecificationURL = DOMAIN resourceSpecificationURL
         /\ saved = <<<<Deref(config), path>>>>
    /\ Len(profileReads) > 0 =>
         myRegion = makeArrayRegions[Last(regionReads) + 1]
    /\ (pc = "exited" /\ Len(profileReads) > 0) => ~IsNil(config)

\* C9 witness: two empty profiles, then "dev", after region index 13.
C9_Witness ==
    /\ ~IsNil(config)
    /\ profileReads = <<"", "", "dev">>
    /\ Last(regionReads) = 13
    /\ Deref(config).DefaultRegion = "sa-east-1"
    /\ Deref(config).DefaultProfile = "dev"

\* C10 as stated: --disable-stack-termination and --enable-stack-termination
\* route to different downstream operations, so the operation invoked with
\* only --disable-stack-termination is not the one the dispatcher selects for
\* only --enable-stack-termination.
C10_TerminationFlagsRouteDifferently ==
    (Len(calls) = 1 /\ Deref(cli.Mode) = "set-stack-policy"
        /\ Deref(cli.DisableStackTermination)
        /\ ~Deref(cli.EnableStackTermination))
      => calls[1] # PolicyOperation(FALSE, TRUE)

\* C10 amended: in set-stack-policy mode the dispatcher makes a single call,
\* stack.ApplyStackPolicy if and only if neither termination flag is set and
\* stack.SetTerminationProtection otherwise; both flags, alone or together,
\* route to that same operation.
C10_PolicyDispatch ==
    (~IsNil(cli.Mode) /\ Deref(cli.Mode) = "set-stack-policy" /\ Dispatching) =>
        /\ Len(calls) <= 1
        /\ (pc = "exited" \/ ifIdx > NumIfs) => Len(calls) = 1
        /\ Len(calls) = 1 =>
             /\ (calls[1] = "stack.ApplyStackPolicy") <=>
                   (~args.disable /\ ~args.enable)
             /\ (calls[1] = "stack.SetTerminationProtection") <=>
                   (args.disable \/ args.enable)

\* C10 witness: both flags set, one call, the process has ended.
C10_Witness ==
    /\ pc = "exited"
    /\ Dispatching
    /\ Deref(cli.Mode) = "set-stack-policy"
    /\ args.disable
    /\ args.enable
    /\ calls = <<"stack.SetTerminationProtection">>

===========================================================================
